---- MODULE Spec2Model ----
(***************************************************************************)
(* Vision-Logistics manager: the dwell-time engine (DwellProcessor), the   *)
(* Redis-backed state store (RedisClient) and the feedback routes.         *)
(*                                                                         *)
(* One partition (collector_id, camera_id) is modelled; both ids are the   *)
(* same in every key and record of a partition and are left out of them.   *)
(* In Spec, SpecRoutes, SpecEngine and SpecSweep store calls succeed and   *)
(* every handler runs to completion as one step (SpecRoutes is Spec with   *)
(* fewer observations); SpecFail lets a store call of a                    *)
(* feedback route throw, SpecEngineFail one of processEvent; SpecRace      *)
(* interleaves an observation and a feedback request at their store calls; *)
(* SpecQueue puts the detection queue between collector and engine;        *)
(* SpecDedup starts the engine with its dedup set at the limit,            *)
(* SpecTimeline with a timeline at its limit; SpecHeatmap and              *)
(* SpecRoundTrip apply the query surface and the state hash to bounded     *)
(* inputs; SpecCollector posts frames to the collector; SpecTicks lets     *)
(* the consumer's timer start invocations that overlap; SpecRetry applies  *)
(* an observation again after its processEvent threw.                      *)
(***************************************************************************)
EXTENDS Integers, Sequences, FiniteSets, TLC

\* ---------------------------------------------------------------- bounds
MaxTs == 3
MaxTimeoutMs == 1
MaxEvents == 3
MaxFeedback == 1
MaxRaceEvents == 2
MaxRouteEvents == 2
MaxDwell == 9
MaxPublished == 2
MaxClock == 1
MaxRuns == 2

\* ------------------------------------------------------ program constants
DedupLimit == 10000
TimelineLast == 99
BatchLast == 9
RecentLast == 99

\* ------------------------------------------------------------ input sets
Objects == {"A", "B"}
Cells == {"G_05_08", "G_06_08"}
Ts == 0..MaxTs

\* JavaScript null / NaN for a number field, null for a string field, and
\* the string 'null' that setObjectState writes in their place.
NULL == -1
NaN == -2
NullCell == "<null>"
StrNull == "null"

VARIABLES
    timeoutMs,        \* DwellProcessor.timeoutMs
    processedEvents,  \* DwellProcessor.processedEvents
    objState,         \* Redis hashes obj:<collector>:<camera>:<object>
    cellDwell,        \* Redis sorted sets cell:<collector>:<camera>:<cell>
    timeline,         \* Redis lists timeline:<collector>:<camera>:<object>
    audit,            \* Redis stream audit:feedback
    dwellCalls,       \* the updateCellDwell calls issued so far, in order
    applied,          \* per object, the observations applied by the engine
    call,             \* the last handler invocation and its outcome
    engine,           \* the processEvent invocation waiting on a store call
    route,            \* the feedback request waiting on a store call
    race,             \* the store before, and the two of, overlapping calls
    queue,            \* Redis sorted set detection:queue
    batch,            \* processDetectionQueue: the events read and removed
    clock,            \* Date.now() of the collector
    published,        \* the events published so far, in insertion order
    handed,           \* the events handed to the engine so far, in order
    recent,           \* Redis list recent:events
    runs,             \* the processDetectionQueue invocations started
    query             \* the last read of the query surface and its answer

\* no read has been made yet
NoQuery == [op |-> "none"]

\* the detection queue between collector and manager
handoff == <<queue, batch, clock, published, handed, recent, runs>>

\* the handlers in flight; a handler that runs as one step leaves them alone
async == <<engine, route, race, handoff, query>>

vars == <<timeoutMs, processedEvents, objState, cellDwell, timeline, audit,
          dwellCalls, applied, call, engine, route, race, queue, batch,
          clock, published, handed, recent, runs,
                   query>>

\* ------------------------------------------------------------- JS helpers
\* truthiness of a number | null value
TruthyNum(x) == x # NULL /\ x # NaN /\ x # 0

\* truthiness of a string | null value
TruthyStr(s) == s # NullCell /\ s # ""

\* ------------------------------------------------------------ normalizer
EventId(ts, objectId) == <<"evt", ts, objectId>>

NormalizedEvent(objectId, cellId, ts) ==
    [event_id |-> EventId(ts, objectId), object_id |-> objectId,
     grid_cell_id |-> cellId, ts_ms |-> ts]

\* ----------------------------------------------------------- RedisClient
NoState == [null |-> TRUE]

\* x?.toString() ?? 'null' for enter_ts_ms; a decimal string is written as
\* the number it spells, the string 'null' as NULL
EnterToString(x) == IF x = NULL THEN NULL ELSE x

\* data.enter_ts_ms ? parseInt(data.enter_ts_ms) : null -- every stored
\* string is non-empty, and parseInt('null') is NaN
ParseEnter(str) == IF str = NULL THEN NaN ELSE str

StateHash(state) ==
    [object_id |-> state.object_id,
     current_cell |-> IF state.current_cell = NullCell THEN StrNull
                      ELSE state.current_cell,
     enter_ts_ms |-> EnterToString(state.enter_ts_ms),
     last_seen_ts_ms |-> state.last_seen_ts_ms,
     accumulated_ms |-> state.accumulated_ms]

HashState(data) ==
    [object_id |-> data.object_id,
     current_cell |-> IF data.current_cell = StrNull THEN NullCell
                      ELSE data.current_cell,
     enter_ts_ms |-> ParseEnter(data.enter_ts_ms),
     last_seen_ts_ms |-> data.last_seen_ts_ms,
     accumulated_ms |-> data.accumulated_ms]

GetObjectState(hashes, objectId) ==
    IF objectId \notin DOMAIN hashes THEN NoState
    ELSE HashState(hashes[objectId])

SetObjectState(hashes, state) ==
    [k \in (DOMAIN hashes) \cup {state.object_id} |->
        IF k = state.object_id THEN StateHash(state) ELSE hashes[k]]

\* ZADD key score member: the member's score is set to dwellMs
ZAdd(zset, objectId, dwellMs) ==
    [k \in (DOMAIN zset) \cup {objectId} |->
        IF k = objectId THEN dwellMs ELSE zset[k]]

UpdateCellDwell(cells, cellId, objectId, dwellMs) ==
    [cells EXCEPT ![cellId] = ZAdd(@, objectId, dwellMs)]

RemoveCellDwell(cells, cellId, objectId) ==
    [cells EXCEPT ![cellId] = [k \in (DOMAIN @) \ {objectId} |-> @[k]]]

AddTimelineEntryMut(tl, objectId, entry) ==
    [tl EXCEPT ![objectId] =
        SubSeq(<<entry>> \o @, 1,
               IF Len(@) + 1 > TimelineLast + 2 THEN TimelineLast + 2
               ELSE Len(@) + 1)]

\* LPUSH then LTRIM 0 99
AddTimelineEntry(tl, objectId, entry) ==
    [tl EXCEPT ![objectId] =
        SubSeq(<<entry>> \o @, 1,
               IF Len(@) + 1 > TimelineLast + 1 THEN TimelineLast + 1
               ELSE Len(@) + 1)]

LogFeedbackEvent(log, eventType, data) ==
    Append(log, [event_type |-> eventType, data |-> data])

\* -------------------------------------------------- store command lists
\* The engine's store calls of one observation, in program order.
DwellCmd(cellId, objectId, dwellMs) ==
    [cmd |-> "updateCellDwell", cell_id |-> cellId, object_id |-> objectId,
     dwell_ms |-> dwellMs]

TimelineCmd(objectId, entry) ==
    [cmd |-> "addTimelineEntry", object_id |-> objectId, entry |-> entry]

Entry(type, cellId, from, to, meta) ==
    [type |-> type, cell_id |-> cellId, from_ts_ms |-> from,
     to_ts_ms |-> to, meta |-> meta]

NoMeta == {}

RECURSIVE RunCells(_, _)
RunCells(cells, cmds) ==
    IF cmds = <<>> THEN cells
    ELSE LET c == Head(cmds) IN
         RunCells(IF c.cmd = "updateCellDwell"
                  THEN UpdateCellDwell(cells, c.cell_id, c.object_id, c.dwell_ms)
                  ELSE cells,
                  Tail(cmds))

RECURSIVE RunTimeline(_, _)
RunTimeline(tl, cmds) ==
    IF cmds = <<>> THEN tl
    ELSE LET c == Head(cmds) IN
         RunTimeline(IF c.cmd = "addTimelineEntry"
                     THEN AddTimelineEntry(tl, c.object_id, c.entry)
                     ELSE tl,
                     Tail(cmds))

DwellCmdsOf(cmds) == SelectSeq(cmds, LAMBDA c : c.cmd = "updateCellDwell")

\* -------------------------------------------------------- DwellProcessor
AlreadyProcessedMut(event) == FALSE

AlreadyProcessed(event) == event.event_id \in processedEvents

HandleTimeout(state, currentTime) ==
    IF TruthyStr(state.current_cell) /\ TruthyNum(state.enter_ts_ms)
    THEN <<DwellCmd(state.current_cell, state.object_id,
                    state.last_seen_ts_ms - state.enter_ts_ms),
           TimelineCmd(state.object_id,
                       Entry("leave", state.current_cell, state.enter_ts_ms,
                             state.last_seen_ts_ms,
                             {<<"reason", "timeout">>}))>>
    ELSE <<>>

\* a first sighting that also reports a contribution
FirstSightingMut(event, now) ==
    [state |-> [object_id |-> event.object_id,
                current_cell |-> event.grid_cell_id,
                enter_ts_ms |-> now,
                last_seen_ts_ms |-> now,
                accumulated_ms |-> 0],
     cmds |-> <<DwellCmd(event.grid_cell_id, event.object_id, 0),
                TimelineCmd(event.object_id,
                            Entry("enter", event.grid_cell_id, now, NULL,
                                  NoMeta))>>]

\* if (!currentState): the new ObjectState and its enter entry
FirstSighting(event, now) ==
    [state |-> [object_id |-> event.object_id,
                current_cell |-> event.grid_cell_id,
                enter_ts_ms |-> now,
                last_seen_ts_ms |-> now,
                accumulated_ms |-> 0],
     cmds |-> <<TimelineCmd(event.object_id,
                            Entry("enter", event.grid_cell_id, now, NULL,
                                  NoMeta))>>]

\* a same-cell tick that restarts the span
SameCellTickMut(currentState, now) ==
    [currentState EXCEPT !.last_seen_ts_ms = now, !.enter_ts_ms = now]

\* if (currentState.current_cell === event.grid_cell_id):
\* { ...currentState, last_seen_ts_ms: now }
SameCellTick(currentState, now) ==
    [currentState EXCEPT !.last_seen_ts_ms = now]

UpdateDwellState(event, currentState) ==
    LET now == event.ts_ms IN
    IF currentState = NoState
    THEN FirstSighting(event, now)
    ELSE
      LET timeSinceLastSeen == now - currentState.last_seen_ts_ms
          timeoutCmds == IF timeSinceLastSeen > timeoutMs
                         THEN HandleTimeout(currentState, now)
                         ELSE <<>>
      IN
      IF currentState.current_cell = event.grid_cell_id
      THEN [state |-> SameCellTick(currentState, now),
            cmds |-> timeoutCmds]
      ELSE
        LET dwellTime == IF TruthyNum(currentState.enter_ts_ms)
                         THEN now - currentState.enter_ts_ms ELSE 0
            newAccumulated == currentState.accumulated_ms + dwellTime
            leaveCmds ==
              IF TruthyStr(currentState.current_cell)
                 /\ TruthyNum(currentState.enter_ts_ms)
              THEN <<DwellCmd(currentState.current_cell, event.object_id,
                              dwellTime),
                     TimelineCmd(event.object_id,
                                 Entry("leave", currentState.current_cell,
                                       currentState.enter_ts_ms, now, NoMeta))>>
              ELSE <<>>
        IN [state |-> [object_id |-> event.object_id,
                       current_cell |-> event.grid_cell_id,
                       enter_ts_ms |-> now,
                       last_seen_ts_ms |-> now,
                       accumulated_ms |-> newAccumulated],
            cmds |-> timeoutCmds \o leaveCmds
                     \o <<TimelineCmd(event.object_id,
                                      Entry("enter", event.grid_cell_id, now,
                                            NULL, NoMeta))>>]

\* processedEvents.add(id); if (size > 10000) clear()
AddProcessed(seen, id) ==
    IF Cardinality(seen \cup {id}) > DedupLimit THEN {} ELSE seen \cup {id}

\* the number of observations applied so far
AppliedCount ==
    Cardinality(UNION {{<<o, i>> : i \in DOMAIN applied[o]} : o \in Objects})

ProcessEventCall(event) ==
    IF AlreadyProcessed(event)
    THEN /\ call' = [op |-> "processEvent", outcome |-> "skipped"]
         /\ UNCHANGED <<timeoutMs, processedEvents, objState, cellDwell,
                        timeline, audit, dwellCalls, applied>>
    ELSE
      LET currentState == GetObjectState(objState, event.object_id)
          r == UpdateDwellState(event, currentState)
      IN /\ AppliedCount < MaxEvents
         /\ cellDwell' = RunCells(cellDwell, r.cmds)
         /\ timeline' = RunTimeline(timeline, r.cmds)
         /\ objState' = SetObjectState(objState, r.state)
         /\ processedEvents' = AddProcessed(processedEvents, event.event_id)
         /\ dwellCalls' = dwellCalls \o DwellCmdsOf(r.cmds)
         /\ applied' = [applied EXCEPT ![event.object_id] = Append(@, event)]
         /\ call' = [op |-> "processEvent", outcome |-> "applied"]
         /\ UNCHANGED <<timeoutMs, audit>>

\* processEvent called on its own, no other handler in flight
ProcessEvent(event) == ProcessEventCall(event) /\ UNCHANGED async

Observe ==
    \E o \in Objects, c \in Cells, t \in Ts :
        ProcessEvent(NormalizedEvent(o, c, t))

\* -------------------------------------------------------- feedback routes
\* a 404 answer that nevertheless leaves an audit record
NotFoundMut(op) ==
    /\ call' = [op |-> op, outcome |-> "404"]
    /\ audit' = LogFeedbackEvent(audit, op, <<>>)
    /\ UNCHANGED <<async, timeoutMs, processedEvents, objState, cellDwell,
                   timeline, dwellCalls, applied>>

\* if (!state) { reply.status(404).send(...); return; }
NotFound(op) ==
    /\ call' = [op |-> op, outcome |-> "404"]
    /\ UNCHANGED <<async, timeoutMs, processedEvents, objState, cellDwell,
                   timeline, audit, dwellCalls, applied>>

\* a no_change answer that rewrites the state with enter_ts_ms reset
NoChangeMut(objectState) ==
    /\ call' = [op |-> "correct_cell", outcome |-> "no_change"]
    /\ objState' = SetObjectState(objState,
                      [objectState EXCEPT !.enter_ts_ms =
                                             objectState.last_seen_ts_ms + 1])
    /\ UNCHANGED <<async, timeoutMs, processedEvents, cellDwell, timeline,
                   audit, dwellCalls, applied>>

\* if (objectState.current_cell === feedback.correct_cell_id)
\*     return { status: 'no_change', ... }
NoChange(objectState) ==
    /\ call' = [op |-> "correct_cell", outcome |-> "no_change"]
    /\ UNCHANGED <<async, timeoutMs, processedEvents, objState, cellDwell,
                   timeline, audit, dwellCalls, applied>>

\* a 400 answer that nevertheless adds a timeline entry
InvalidSpanMut(objectId) ==
    /\ call' = [op |-> "delete_span", outcome |-> "400"]
    /\ timeline' = AddTimelineEntry(timeline, objectId,
                      Entry("delete", "deleted", 0, 0, NoMeta))
    /\ UNCHANGED <<async, timeoutMs, processedEvents, objState, cellDwell,
                   audit, dwellCalls, applied>>

\* if (from_ts_ms >= to_ts_ms) { reply.status(400).send(...); return; }
InvalidSpan(objectId) ==
    /\ call' = [op |-> "delete_span", outcome |-> "400"]
    /\ UNCHANGED <<async, timeoutMs, processedEvents, objState, cellDwell,
                   timeline, audit, dwellCalls, applied>>

Relabel(oldId, newId) ==
    LET feedback == [old_object_id |-> oldId, new_object_id |-> newId]
        oldState == GetObjectState(objState, oldId)
    IN
    IF oldState = NoState
    THEN NotFound("relabel")
    ELSE
      LET newState == [oldState EXCEPT !.object_id = newId]
          moves == TruthyStr(oldState.current_cell)
                   /\ oldState.accumulated_ms > 0
      IN /\ Len(audit) < MaxFeedback
         /\ objState' = SetObjectState(objState, newState)
         /\ cellDwell' =
              IF moves
              THEN UpdateCellDwell(
                     RemoveCellDwell(cellDwell, oldState.current_cell, oldId),
                     oldState.current_cell, newId, oldState.accumulated_ms)
              ELSE cellDwell
         /\ dwellCalls' =
              IF moves
              THEN Append(dwellCalls,
                          DwellCmd(oldState.current_cell, newId,
                                   oldState.accumulated_ms))
              ELSE dwellCalls
         /\ audit' = LogFeedbackEvent(audit, "relabel", feedback)
         /\ call' = [op |-> "relabel", outcome |-> "success"]
         /\ UNCHANGED <<async, timeoutMs, processedEvents, timeline, applied>>

CorrectCell(objectId, frameTs, correctCellId) ==
    LET feedback == [object_id |-> objectId, frame_ts_ms |-> frameTs,
                     correct_cell_id |-> correctCellId]
        objectState == GetObjectState(objState, objectId)
    IN
    IF objectState = NoState
    THEN NotFound("correct_cell")
    ELSE IF objectState.current_cell = correctCellId
    THEN NoChange(objectState)
    ELSE
      LET closes == TruthyStr(objectState.current_cell)
                    /\ TruthyNum(objectState.enter_ts_ms)
          correctedState == [objectState EXCEPT
                               !.current_cell = correctCellId,
                               !.enter_ts_ms = frameTs,
                               !.last_seen_ts_ms = frameTs]
          tl1 == IF closes
                 THEN AddTimelineEntry(timeline, objectId,
                        Entry("correct", objectState.current_cell,
                              objectState.enter_ts_ms, frameTs,
                              {<<"reason", "correction">>,
                               <<"original_cell", objectState.current_cell>>,
                               <<"corrected_cell", correctCellId>>}))
                 ELSE timeline
      IN /\ Len(audit) < MaxFeedback
         /\ cellDwell' =
              IF closes
              THEN RemoveCellDwell(cellDwell, objectState.current_cell,
                                   objectId)
              ELSE cellDwell
         /\ objState' = SetObjectState(objState, correctedState)
         /\ timeline' = AddTimelineEntry(tl1, objectId,
                          Entry("enter", correctCellId, frameTs, NULL,
                                {<<"reason", "correction">>}))
         /\ audit' = LogFeedbackEvent(audit, "correct_cell", feedback)
         /\ call' = [op |-> "correct_cell", outcome |-> "success"]
         /\ UNCHANGED <<async, timeoutMs, processedEvents, dwellCalls, applied>>

DeleteEntryMut(from, to) ==
    Entry("delete", "deleted", from, to,
          {<<"reason", "false_positive_removal">>, <<"duration_ms", to>>})

DeleteEntry(from, to) ==
    Entry("delete", "deleted", from, to,
          {<<"reason", "false_positive_removal">>,
           <<"duration_ms", to - from>>})

DeleteSpan(objectId, from, to) ==
    LET feedback == [object_id |-> objectId, from_ts_ms |-> from,
                     to_ts_ms |-> to]
    IN
    IF from >= to
    THEN InvalidSpan(objectId)
    ELSE /\ Len(audit) < MaxFeedback
         /\ timeline' = AddTimelineEntry(timeline, objectId,
                                         DeleteEntry(from, to))
         /\ audit' = LogFeedbackEvent(audit, "delete_span", feedback)
         /\ call' = [op |-> "delete_span", outcome |-> "success"]
         /\ UNCHANGED <<async, timeoutMs, processedEvents, objState, cellDwell,
                        dwellCalls, applied>>

FeedbackRelabel == \E old \in Objects, new \in Objects : Relabel(old, new)

FeedbackCorrectCell ==
    \E o \in Objects, t \in Ts, c \in Cells : CorrectCell(o, t, c)

FeedbackDeleteSpan == \E o \in Objects, f \in Ts, t \in Ts : DeleteSpan(o, f, t)

\* ------------------------------------------------------------------ Init
\* no handler waits on a store call
Idle == [idle |-> TRUE]

NoRace == [base |-> <<>>, event |-> Idle, feedback |-> Idle,
           overlapped |-> FALSE]

\* the engine's keys, the handlers and the histories at start-up
InitEngine ==
    /\ timeoutMs \in 1..MaxTimeoutMs
    /\ objState = <<>>
    /\ cellDwell = [c \in Cells |-> <<>>]
    /\ dwellCalls = <<>>
    /\ applied = [o \in Objects |-> <<>>]
    /\ call = [op |-> "init", outcome |-> "none"]
    /\ engine = Idle
    /\ route = Idle
    /\ race = NoRace
    /\ queue = <<>>
    /\ batch = <<>>
    /\ clock = 0
    /\ published = <<>>
    /\ handed = <<>>
    /\ recent = <<>>
    /\ runs = <<>>
    /\ query = NoQuery

\* the empty store at start-up
InitStore ==
    /\ InitEngine
    /\ timeline = [o \in Objects |-> <<>>]
    /\ audit = <<>>

Init ==
    /\ processedEvents = {}
    /\ InitStore

NextEngine == Observe

SpecEngine == Init /\ [][NextEngine]_vars

\* the ids of n earlier observations, of an object that is not followed here
EarlierIds(n) == {EventId(k, "Z") : k \in 1..n}

\* a processor that has run for long: one id short of the limit, or at it
InitDedup ==
    /\ processedEvents \in {EarlierIds(DedupLimit - 1), EarlierIds(DedupLimit)}
    /\ InitStore

SpecDedup == InitDedup /\ [][NextEngine]_vars

\* the timeline and the audit stream after n delete_span requests for
\* object A, the spans (0, 1) .. (0, n), newest entry first
EarlierSpans(n) == [i \in 1..n |-> DeleteEntry(0, n - i + 1)]

EarlierAudit(n) ==
    [i \in 1..n |-> [event_type |-> "delete_span",
                     data |-> [object_id |-> "A", from_ts_ms |-> 0,
                               to_ts_ms |-> i]]]

\* a store whose timeline of A is one entry short of the bound, or at it
InitTimeline ==
    /\ processedEvents = {}
    /\ InitEngine
    /\ \E n \in {TimelineLast, TimelineLast + 1} :
          /\ timeline = [o \in Objects |->
                            IF o = "A" THEN EarlierSpans(n) ELSE <<>>]
          /\ audit = EarlierAudit(n)

SpecTimeline == InitTimeline /\ [][NextEngine]_vars

Next ==
    \/ Observe
    \/ FeedbackRelabel
    \/ FeedbackCorrectCell
    \/ FeedbackDeleteSpan

Spec == Init /\ [][Next]_vars

\* the feedback routes on the store that a few observations have left
ObserveFew == AppliedCount < MaxRouteEvents /\ Observe

NextRoutes ==
    \/ ObserveFew
    \/ FeedbackRelabel
    \/ FeedbackCorrectCell
    \/ FeedbackDeleteSpan

SpecRoutes == Init /\ [][NextRoutes]_vars

\* ------------------------------------------------------- timeout sweeper
\* processTimeouts(): reads the clock and logs; it makes no store call
ProcessTimeouts ==
    /\ call' = [op |-> "processTimeouts", outcome |-> "none"]
    /\ UNCHANGED <<async, timeoutMs, processedEvents, objState, cellDwell, timeline,
                   audit, dwellCalls, applied>>

NextSweep ==
    \/ Observe
    \/ ProcessTimeouts

\* The engine with a sweeper that is run again and again. The consumer's
\* timer keeps taking observations; no timer of the program calls
\* processTimeouts, so its weak fairness is granted here: a behaviour that
\* violates a liveness property under it also does so without it.
SpecSweep ==
    Init /\ [][NextSweep]_vars /\ WF_vars(Observe) /\ WF_vars(ProcessTimeouts)

\* ------------------------------------------- feedback with failing store
\* The store calls of a feedback route, in program order.
ReadCmd(objectId) == [cmd |-> "getObjectState", object_id |-> objectId]

StateCmd(state) == [cmd |-> "setObjectState", state |-> state]

RemoveCmd(cellId, objectId) ==
    [cmd |-> "removeCellDwell", cell_id |-> cellId, object_id |-> objectId]

AuditCmd(eventType, data) ==
    [cmd |-> "logFeedbackEvent", event_type |-> eventType, data |-> data]

RelabelCalls(hashes, oldId, newId) ==
    LET feedback == [old_object_id |-> oldId, new_object_id |-> newId]
        oldState == GetObjectState(hashes, oldId)
    IN
    IF oldState = NoState
    THEN <<ReadCmd(oldId)>>
    ELSE <<ReadCmd(oldId),
           StateCmd([oldState EXCEPT !.object_id = newId])>>
         \o (IF TruthyStr(oldState.current_cell)
                /\ oldState.accumulated_ms > 0
             THEN <<RemoveCmd(oldState.current_cell, oldId),
                    DwellCmd(oldState.current_cell, newId,
                             oldState.accumulated_ms)>>
             ELSE <<>>)
         \o <<AuditCmd("relabel", feedback)>>

CorrectCellCalls(hashes, objectId, frameTs, correctCellId) ==
    LET feedback == [object_id |-> objectId, frame_ts_ms |-> frameTs,
                     correct_cell_id |-> correctCellId]
        objectState == GetObjectState(hashes, objectId)
    IN
    IF objectState = NoState
    THEN <<ReadCmd(objectId)>>
    ELSE IF objectState.current_cell = correctCellId
    THEN <<ReadCmd(objectId)>>
    ELSE <<ReadCmd(objectId)>>
         \o (IF TruthyStr(objectState.current_cell)
                /\ TruthyNum(objectState.enter_ts_ms)
             THEN <<RemoveCmd(objectState.current_cell, objectId),
                    TimelineCmd(objectId,
                      Entry("correct", objectState.current_cell,
                            objectState.enter_ts_ms, frameTs,
                            {<<"reason", "correction">>,
                             <<"original_cell", objectState.current_cell>>,
                             <<"corrected_cell", correctCellId>>}))>>
             ELSE <<>>)
         \o <<StateCmd([objectState EXCEPT
                          !.current_cell = correctCellId,
                          !.enter_ts_ms = frameTs,
                          !.last_seen_ts_ms = frameTs]),
              TimelineCmd(objectId,
                          Entry("enter", correctCellId, frameTs, NULL,
                                {<<"reason", "correction">>})),
              AuditCmd("correct_cell", feedback)>>

DeleteSpanCalls(objectId, from, to) ==
    LET feedback == [object_id |-> objectId, from_ts_ms |-> from,
                     to_ts_ms |-> to]
    IN
    IF from >= to
    THEN <<>>
    ELSE <<TimelineCmd(objectId, DeleteEntry(from, to)),
           AuditCmd("delete_span", feedback)>>

\* the store after a list of calls has been carried out
StoreCall(st, c) ==
    IF c.cmd = "setObjectState"
    THEN [st EXCEPT !.objState = SetObjectState(@, c.state)]
    ELSE IF c.cmd = "removeCellDwell"
    THEN [st EXCEPT !.cellDwell = RemoveCellDwell(@, c.cell_id, c.object_id)]
    ELSE IF c.cmd = "updateCellDwell"
    THEN [st EXCEPT !.cellDwell =
                       UpdateCellDwell(@, c.cell_id, c.object_id, c.dwell_ms)]
    ELSE IF c.cmd = "addTimelineEntry"
    THEN [st EXCEPT !.timeline = AddTimelineEntry(@, c.object_id, c.entry)]
    ELSE IF c.cmd = "logFeedbackEvent"
    THEN [st EXCEPT !.audit = LogFeedbackEvent(@, c.event_type, c.data)]
    ELSE st

RECURSIVE RunStore(_, _)
RunStore(st, cmds) ==
    IF cmds = <<>> THEN st ELSE RunStore(StoreCall(st, Head(cmds)), Tail(cmds))

Store ==
    [objState |-> objState, cellDwell |-> cellDwell, timeline |-> timeline,
     audit |-> audit]

\* A route whose store call number done + 1 throws: the calls before it
\* have taken effect, the catch block answers 500.
FailFeedback(op, calls, done) ==
    LET st == RunStore(Store, SubSeq(calls, 1, done))
    IN /\ Len(audit) < MaxFeedback
       /\ objState' = st.objState
       /\ cellDwell' = st.cellDwell
       /\ timeline' = st.timeline
       /\ audit' = st.audit
       /\ dwellCalls' = dwellCalls \o DwellCmdsOf(SubSeq(calls, 1, done))
       /\ call' = [op |-> op, outcome |-> "500"]
       /\ UNCHANGED <<async, timeoutMs, processedEvents, applied>>

FailRelabel ==
    \E old \in Objects, new \in Objects :
        \E done \in 0..(Len(RelabelCalls(objState, old, new)) - 1) :
            FailFeedback("relabel", RelabelCalls(objState, old, new), done)

FailCorrectCell ==
    \E o \in Objects, t \in Ts, c \in Cells :
        \E done \in 0..(Len(CorrectCellCalls(objState, o, t, c)) - 1) :
            FailFeedback("correct_cell", CorrectCellCalls(objState, o, t, c),
                         done)

FailDeleteSpan ==
    \E o \in Objects, f \in Ts, t \in Ts :
        \E done \in 0..(Len(DeleteSpanCalls(o, f, t)) - 1) :
            FailFeedback("delete_span", DeleteSpanCalls(o, f, t), done)

\* a run is followed up to its first failed store call
NoFailure == call.outcome # "500"

NextFail ==
    \/ NoFailure /\ Observe
    \/ NoFailure /\ FeedbackRelabel
    \/ NoFailure /\ FeedbackCorrectCell
    \/ NoFailure /\ FeedbackDeleteSpan
    \/ NoFailure /\ FailRelabel
    \/ NoFailure /\ FailCorrectCell
    \/ NoFailure /\ FailDeleteSpan

SpecFail == Init /\ [][NextFail]_vars

\* ------------------------------- observation and feedback in one process
\* The manager runs the consumer and the feedback routes on one event
\* loop: a handler runs until it awaits a store call, and the other
\* handler's steps may run before the call's continuation does.
EngineCalls(hashes, event) ==
    LET r == UpdateDwellState(event,
                              GetObjectState(hashes, event.object_id))
    IN r.cmds \o <<StateCmd(r.state)>>

FeedbackRequests ==
    {[op |-> "relabel", old_object_id |-> old, new_object_id |-> new] :
        old \in Objects, new \in Objects}
    \cup
    {[op |-> "correct_cell", object_id |-> o, frame_ts_ms |-> t,
      correct_cell_id |-> c] : o \in Objects, t \in Ts, c \in Cells}

RouteObject(f) == IF f.op = "relabel" THEN f.old_object_id ELSE f.object_id

\* the store calls of a route that follow its getObjectState
RouteCalls(hashes, f) ==
    Tail(IF f.op = "relabel"
         THEN RelabelCalls(hashes, f.old_object_id, f.new_object_id)
         ELSE CorrectCellCalls(hashes, f.object_id, f.frame_ts_ms,
                               f.correct_cell_id))

RouteOutcome(hashes, f) ==
    IF RouteObject(f) \notin DOMAIN hashes THEN "404"
    ELSE IF RouteCalls(hashes, f) = <<>> THEN "no_change"
    ELSE "success"

\* processEvent up to the return of getObjectState
BeginProcessEvent(event) ==
    /\ engine = Idle
    /\ ~AlreadyProcessed(event)
    /\ AppliedCount < MaxRaceEvents
    /\ engine' = [event |-> event, calls |-> EngineCalls(objState, event)]
    /\ race' = IF route = Idle
               THEN [base |-> Store, event |-> event, feedback |-> Idle,
                     overlapped |-> FALSE]
               ELSE IF race.event = Idle
               THEN [race EXCEPT !.event = event, !.overlapped = TRUE]
               ELSE [race EXCEPT !.overlapped = FALSE]
    /\ UNCHANGED <<timeoutMs, processedEvents, objState, cellDwell, timeline,
                   audit, dwellCalls, applied, call, route, handoff, query>>

\* the next store call of processEvent; after the last one, setObjectState,
\* the event id joins processedEvents
EngineStoreCall ==
    /\ engine # Idle
    /\ LET c == Head(engine.calls)
           rest == Tail(engine.calls)
           st == StoreCall(Store, c)
       IN /\ objState' = st.objState
          /\ cellDwell' = st.cellDwell
          /\ timeline' = st.timeline
          /\ dwellCalls' = dwellCalls \o DwellCmdsOf(<<c>>)
          /\ IF rest = <<>>
             THEN /\ processedEvents' =
                       AddProcessed(processedEvents, engine.event.event_id)
                  /\ applied' = [applied EXCEPT ![engine.event.object_id] =
                                                   Append(@, engine.event)]
                  /\ call' = [op |-> "processEvent", outcome |-> "applied"]
                  /\ engine' = Idle
             ELSE /\ engine' = [engine EXCEPT !.calls = rest]
                  /\ UNCHANGED <<processedEvents, applied, call>>
    /\ UNCHANGED <<timeoutMs, audit, route, race, handoff, query>>

\* a feedback route up to the return of getObjectState
BeginFeedback(f) ==
    /\ route = Idle
    /\ Len(audit) < MaxFeedback
    /\ IF RouteCalls(objState, f) = <<>>
       THEN /\ call' = [op |-> f.op, outcome |-> RouteOutcome(objState, f)]
            /\ UNCHANGED <<route, race>>
       ELSE /\ route' = [feedback |-> f, calls |-> RouteCalls(objState, f)]
            /\ race' = IF engine = Idle
                       THEN [base |-> Store, event |-> Idle, feedback |-> f,
                             overlapped |-> FALSE]
                       ELSE IF race.feedback = Idle
                       THEN [race EXCEPT !.feedback = f, !.overlapped = TRUE]
                       ELSE [race EXCEPT !.overlapped = FALSE]
            /\ UNCHANGED call
    /\ UNCHANGED <<timeoutMs, processedEvents, objState, cellDwell, timeline,
                   audit, dwellCalls, applied, engine, handoff,
                   query>>

\* the next store call of the feedback route
RouteStoreCall ==
    /\ route # Idle
    /\ LET c == Head(route.calls)
           rest == Tail(route.calls)
           st == StoreCall(Store, c)
       IN /\ objState' = st.objState
          /\ cellDwell' = st.cellDwell
          /\ timeline' = st.timeline
          /\ audit' = st.audit
          /\ dwellCalls' = dwellCalls \o DwellCmdsOf(<<c>>)
          /\ IF rest = <<>>
             THEN /\ call' = [op |-> route.feedback.op, outcome |-> "success"]
                  /\ route' = Idle
             ELSE /\ route' = [route EXCEPT !.calls = rest]
                  /\ UNCHANGED call
    /\ UNCHANGED <<timeoutMs, processedEvents, applied, engine, race, handoff,
                   query>>

ObserveBegin ==
    \E o \in Objects, c \in Cells, t \in Ts :
        BeginProcessEvent(NormalizedEvent(o, c, t))

FeedbackBegin == \E f \in FeedbackRequests : BeginFeedback(f)

NextRace ==
    \/ ObserveBegin
    \/ EngineStoreCall
    \/ FeedbackBegin
    \/ RouteStoreCall

SpecRace == Init /\ [][NextRace]_vars

\* =================================================================
\* The detection queue: RedisPublisher (collector) and RedisConsumer
\* (manager).  The collector adds every event to the sorted set
\* detection:queue with score Date.now(); the manager's timer reads the ten
\* oldest members, removes them, and hands them to the engine one by one.
\* =================================================================
\* JSON.stringify(event) as far as two events of a partition differ: the
\* decimal timestamp inside event_id, the '-' after it (below every digit),
\* the object id and the grid cell, each as its place in byte order.
RECURSIVE Digits(_)
Digits(n) == IF n < 10 THEN <<n>> ELSE Digits(n \div 10) \o <<n % 10>>

ByteOrder == <<"A", "B", "G_05_08", "G_06_08">>
Place(str) == CHOOSE i \in DOMAIN ByteOrder : ByteOrder[i] = str

Stringify(event) ==
    Digits(event.ts_ms) \o <<-1, Place(event.object_id),
                             Place(event.grid_cell_id)>>

\* lexicographic order of two strings
RECURSIVE StrLess(_, _)
StrLess(a, b) ==
    IF a = <<>> THEN b # <<>>
    ELSE IF b = <<>> THEN FALSE
    ELSE IF Head(a) = Head(b) THEN StrLess(Tail(a), Tail(b))
    ELSE Head(a) < Head(b)

\* Redis sorted set: members ordered by score, then by member
ZBefore(zset, m1, m2) ==
    \/ zset[m1] < zset[m2]
    \/ zset[m1] = zset[m2] /\ StrLess(Stringify(m1), Stringify(m2))

ZRank(zset, m) == Cardinality({x \in DOMAIN zset : ZBefore(zset, x, m)})

ZRange(zset, start, stop) ==
    LET card == Cardinality(DOMAIN zset)
        last == IF stop + 1 > card THEN card ELSE stop + 1
    IN [i \in (start + 1)..last |->
           CHOOSE m \in DOMAIN zset : ZRank(zset, m) = i - 1]

ZRemAll(zset, members) ==
    [m \in {x \in DOMAIN zset : \A i \in DOMAIN members : members[i] # x}
        |-> zset[m]]

\* RedisPublisher.publishDetectionEvents: one zAdd per event of the frame
RECURSIVE ZAddAll(_, _, _)
ZAddAll(zset, score, events) ==
    IF events = <<>> THEN zset
    ELSE ZAddAll(ZAdd(zset, Head(events), score), score, Tail(events))

PublishDetectionEvents(events) ==
    /\ Len(published) + Len(events) <= MaxPublished
    /\ queue' = ZAddAll(queue, clock, events)
    /\ published' = published \o events
    /\ call' = [op |-> "publishDetectionEvents", outcome |-> "success"]
    /\ UNCHANGED <<timeoutMs, processedEvents, objState, cellDwell, timeline,
                   audit, dwellCalls, applied, engine, route, race, batch,
                   clock, handed, recent, runs,
                   query>>

\* normalizeDetectionPayload: the events of one frame, one per object
FrameEvents ==
    {<<NormalizedEvent(o, c, t)>> : o \in Objects, c \in Cells, t \in Ts}
    \cup {f \in {<<NormalizedEvent(o1, c1, t), NormalizedEvent(o2, c2, t)>> :
                      o1 \in Objects, o2 \in Objects, c1 \in Cells,
                      c2 \in Cells, t \in Ts} :
              f[1].object_id # f[2].object_id}

Publish == \E events \in FrameEvents : PublishDetectionEvents(events)

\* the collector's wall clock passes to the next millisecond
Tick ==
    /\ clock < MaxClock
    /\ clock' = clock + 1
    /\ UNCHANGED <<timeoutMs, processedEvents, objState, cellDwell, timeline,
                   audit, dwellCalls, applied, call, engine, route, race,
                   queue, batch, published, handed, recent, runs,
                   query>>

\* RedisClient.addRecentEvent
AddRecentEvent(list, event) ==
    SubSeq(<<event>> \o list, 1,
           IF Len(list) + 1 > RecentLast + 1 THEN RecentLast + 1
           ELSE Len(list) + 1)

\* RedisConsumer.processDetectionQueue up to its zRem: the batch leaves the
\* queue before any of it is processed
Poll ==
    /\ batch = <<>>
    /\ queue # <<>>
    /\ batch' = ZRange(queue, 0, BatchLast)
    /\ queue' = ZRemAll(queue, ZRange(queue, 0, BatchLast))
    /\ UNCHANGED <<timeoutMs, processedEvents, objState, cellDwell, timeline,
                   audit, dwellCalls, applied, call, engine, route, race,
                   clock, published, handed, recent, runs,
                   query>>

\* one turn of the loop over the batch: the engine applies the event, then
\* addRecentEvent
HandOff ==
    /\ batch # <<>>
    /\ ProcessEventCall(Head(batch))
    /\ handed' = Append(handed, Head(batch))
    /\ recent' = AddRecentEvent(recent, Head(batch))
    /\ batch' = Tail(batch)
    /\ UNCHANGED <<engine, route, race, queue, clock, published, runs, query>>

\* the call into the engine throws: the outer catch logs the error and the
\* rest of the batch is dropped with it
HandOffThrows ==
    /\ batch # <<>>
    /\ batch' = <<>>
    /\ call' = [op |-> "processDetectionQueue", outcome |-> "error"]
    /\ UNCHANGED <<timeoutMs, processedEvents, objState, cellDwell, timeline,
                   audit, dwellCalls, applied, engine, route, race, queue,
                   clock, published, handed, recent, runs,
                   query>>

NextQueue ==
    \/ Publish
    \/ Tick
    \/ Poll
    \/ HandOff
    \/ HandOffThrows

\* the timer fires every 100 ms, so a waiting batch is read and its loop
\* runs on; a call into the engine that can be made again and again does
\* not throw every time
SpecQueue ==
    /\ Init /\ [][NextQueue]_vars
    /\ WF_vars(Poll)
    /\ WF_vars(HandOff \/ HandOffThrows)
    /\ SF_vars(HandOff)

\* =================================================================
\* processEvent with a store call that throws: the calls before it have
\* taken effect, the catch block logs and rethrows.
\* =================================================================
ProcessEventCalls(hashes, event) ==
    <<ReadCmd(event.object_id)>> \o EngineCalls(hashes, event)

\* the first `done` store calls succeed, the next one throws; `seen` is the
\* dedup set the invocation leaves behind
ProcessEventThrowsCall(event, done, seen) ==
    LET calls == ProcessEventCalls(objState, event)
        st == RunStore(Store, SubSeq(calls, 1, done))
    IN /\ ~AlreadyProcessed(event)
       /\ AppliedCount < MaxEvents
       /\ done \in 0..(Len(calls) - 1)
       /\ objState' = st.objState
       /\ cellDwell' = st.cellDwell
       /\ timeline' = st.timeline
       /\ dwellCalls' = dwellCalls \o DwellCmdsOf(SubSeq(calls, 1, done))
       /\ processedEvents' = seen
       /\ call' = [op |-> "processEvent", outcome |-> "throws"]
       /\ UNCHANGED <<timeoutMs, audit, applied>>

ProcessEventThrows(event, done, seen) ==
    ProcessEventThrowsCall(event, done, seen) /\ UNCHANGED async

FailProcessEventMut(event, done) ==
    ProcessEventThrows(event, done,
                       AddProcessed(processedEvents, event.event_id))

FailProcessEvent(event, done) ==
    ProcessEventThrows(event, done, processedEvents)

ObserveFails ==
    \E o \in Objects, c \in Cells, t \in Ts :
        \E done \in 0..(Len(ProcessEventCalls(objState,
                                              NormalizedEvent(o, c, t))) - 1) :
            FailProcessEvent(NormalizedEvent(o, c, t), done)

\* a run is followed up to its first throw
NoThrow == call.outcome # "throws"

NextEngineFail ==
    \/ NoThrow /\ Observe
    \/ NoThrow /\ ObserveFails

SpecEngineFail == Init /\ [][NextEngineFail]_vars

\* ---------------------------------------------- redelivery after a throw
\* An observation whose processEvent threw is delivered again (the same
\* event published a second time) and processEvent then runs to its end.
\* `engine` holds the event and the store the failed invocation started on.
FailAwaitingRetry(event, done) ==
    /\ engine = Idle
    /\ ProcessEventThrowsCall(event, done, processedEvents)
    /\ engine' = [event |-> event, base |-> Store]
    /\ UNCHANGED <<route, race, handoff, query>>

ObserveFailsFirst ==
    \E o \in Objects, c \in Cells, t \in Ts :
        \E done \in 0..(Len(ProcessEventCalls(objState,
                                              NormalizedEvent(o, c, t))) - 1) :
            FailAwaitingRetry(NormalizedEvent(o, c, t), done)

Redeliver ==
    /\ engine # Idle
    /\ ProcessEventCall(engine.event)
    /\ engine' = Idle
    /\ UNCHANGED <<route, race, handoff, query>>

NextRetry ==
    \/ engine = Idle /\ Observe
    \/ ObserveFailsFirst
    \/ Redeliver

SpecRetry == Init /\ [][NextRetry]_vars

\* =================================================================
\* The query surface: reads of the store (RedisClient) and the routes
\* that return them.
\* =================================================================
\* the cell keys that exist: Redis drops a sorted set with its last member
CellKeys(cells) == {c \in DOMAIN cells : cells[c] # <<>>}

\* RedisClient.getCellStats: hGetAll on every cell key found.  The keys hold
\* the sorted sets written by updateCellDwell, and Redis answers HGETALL on a
\* sorted set with a WRONGTYPE error, which the function does not catch.
GetCellStats(cells) ==
    IF CellKeys(cells) = {} THEN [error |-> "none", stats |-> {}]
    ELSE [error |-> "WRONGTYPE", stats |-> {}]

\* a / b in JavaScript, kept as the pair of its operands: 0 / 0 is NaN and
\* a / 0 with a > 0 is Infinity
Divide(a, b) == [num |-> a, den |-> b]
InUnitInterval(x) == x.den > 0 /\ 0 <= x.num /\ x.num <= x.den
IsOne(x) == x.den # 0 /\ x.num = x.den

RECURSIVE MathMax(_)
MathMax(numbers) ==
    IF Cardinality(numbers) = 1 THEN CHOOSE n \in numbers : TRUE
    ELSE LET n == CHOOSE x \in numbers : TRUE
             rest == MathMax(numbers \ {n})
         IN IF n > rest THEN n ELSE rest

\* RedisClient.generateHeatmapData from the list getCellStats returned, here
\* the total_dwell_ms of every cell in the list
GenerateHeatmapData(stats, windowMs) ==
    IF windowMs = 0 THEN [window_ms |-> windowMs, cells |-> <<>>]
    ELSE LET maxDwell == IF DOMAIN stats # {}
                         THEN MathMax({stats[c] : c \in DOMAIN stats})
                         ELSE 1
         IN [window_ms |-> windowMs,
             cells |-> [c \in DOMAIN stats |->
                           [dwell_ms |-> stats[c],
                            intensity |-> Divide(stats[c], maxDwell)]]]

\* the lists of cell aggregates and the windows a heatmap is asked for
CellStatsLists == UNION {[S -> 0..MaxDwell] : S \in SUBSET Cells}
Windows == {0, 3600000}

\* GET /heatmap
Heatmap ==
    /\ \E stats \in CellStatsLists, w \in Windows :
          query' = [op |-> "heatmap", stats |-> stats,
                    data |-> GenerateHeatmapData(stats, w)]
    /\ UNCHANGED <<timeoutMs, processedEvents, objState, cellDwell, timeline,
                   audit, dwellCalls, applied, call, engine, route, race,
                   handoff>>

SpecHeatmap == Init /\ [][Heatmap]_vars

\* LRANGE key start stop, stop >= 0 or counted from the tail of the list
LRange(list, start, stop) ==
    LET last == IF stop < 0 THEN Len(list) + stop + 1
                ELSE IF stop + 1 > Len(list) THEN Len(list) ELSE stop + 1
    IN SubSeq(list, start + 1, last)

\* RedisClient.getRecentEvents: every list element is turned into a log
\* record; event.timestamp_ms.toString() throws for an element without the
\* field timestamp_ms, the element becomes null and is filtered out
RecentRecord(event) ==
    [timestamp |-> event.timestamp_ms, object_id |-> event.object_id,
     grid_cell |-> IF "grid_cell" \in DOMAIN event THEN event.grid_cell
                   ELSE "unknown"]

GetRecentEvents(list, limit) ==
    LET parsed == SelectSeq(LRange(list, 0, limit - 1),
                            LAMBDA e : "timestamp_ms" \in DOMAIN e)
    IN [i \in DOMAIN parsed |-> RecentRecord(parsed[i])]

\* GET /events/recent asks for 50; the function takes any limit
Limits == {1, 2, 50}

\* ---------------------------------------------------------------------
\* Collector: POST /frames, CollectorService.processCameraFrame
\* ---------------------------------------------------------------------

\* ids are opaque strings of the request body (camera_id, object_id) and of
\* the environment (COLLECTOR_ID); ids with hyphens are the usual ones
Collectors == {"c", "c-1"}
Cameras == {"k", "1-k"}

\* grid_cell_id of a detected object is any string: two cells of the grid,
\* one of the right form outside the 20 x 15 grid, one of another form
GridCellIds == Cells \cup {"G_20_15", "cell"}

DetectedObjects ==
    [object_id : Objects, grid_cell_id : GridCellIds]

CameraFrames ==
    [camera_id : Cameras, timestamp_ms : 0..MaxClock,
     objects : {<<>>} \cup {<<o>> : o \in DetectedObjects}
                 \cup {<<o1, o2>> : o1 \in DetectedObjects,
                                    o2 \in DetectedObjects}]

BuildDetectionPayload(collectorId, frame) ==
    [collector_id |-> collectorId, camera_id |-> frame.camera_id,
     timestamp_ms |-> frame.timestamp_ms, objects |-> frame.objects]

\* the template string `evt-${collector_id}-${camera_id}-${timestamp_ms}-${object_id}`
EventIdString(collectorId, cameraId, timestampMs, objectId) ==
    "evt-" \o collectorId \o "-" \o cameraId \o "-" \o ToString(timestampMs)
        \o "-" \o objectId

NormalizeDetectionPayload(payload) ==
    [i \in DOMAIN payload.objects |->
        [event_id |-> EventIdString(payload.collector_id, payload.camera_id,
                                    payload.timestamp_ms,
                                    payload.objects[i].object_id),
         collector_id |-> payload.collector_id,
         camera_id |-> payload.camera_id,
         object_id |-> payload.objects[i].object_id,
         grid_cell_id |-> payload.objects[i].grid_cell_id,
         ts_ms |-> payload.timestamp_ms]]

\* POST /frames of the collector collectorId: the body is not validated;
\* the events of the frame are published when there are any, and the reply
\* is {status: 'processed'}
ProcessCameraFrame(collectorId, frame) ==
    LET normalizedEvents ==
            NormalizeDetectionPayload(BuildDetectionPayload(collectorId, frame))
    IN /\ Len(published) + Len(normalizedEvents) <= MaxPublished
       /\ queue' = IF Len(normalizedEvents) > 0
                   THEN ZAddAll(queue, clock, normalizedEvents) ELSE queue
       /\ published' = published \o normalizedEvents
       /\ call' = [op |-> "POST /frames", outcome |-> "processed"]
       /\ UNCHANGED <<timeoutMs, processedEvents, objState, cellDwell,
                      timeline, audit, dwellCalls, applied, engine, route,
                      race, batch, clock, handed, recent, runs,
                   query>>

PostFrames ==
    \E collectorId \in Collectors, frame \in CameraFrames :
        ProcessCameraFrame(collectorId, frame)

NextCollector == PostFrames \/ Tick

SpecCollector == Init /\ [][NextCollector]_vars

\* ---------------------------------------------------------------------
\* RedisConsumer.start: setInterval starts processDetectionQueue every
\* 100 ms, whether or not the invocation before it has returned. An
\* invocation runs from one await to the next as one step.
\* ---------------------------------------------------------------------

\* the callback of setInterval: isRunning is true, a new invocation starts
TimerFires ==
    /\ Len(runs) < MaxRuns
    /\ runs' = Append(runs, [pc |-> "zRange", results |-> <<>>,
                             read |-> <<>>])
    /\ UNCHANGED <<timeoutMs, processedEvents, objState, cellDwell, timeline,
                   audit, dwellCalls, applied, call, engine, route, race,
                   queue, batch, clock, published, handed, recent, query>>

\* await zRange('detection:queue', 0, 9); an empty answer ends the run
RunZRange(i) ==
    /\ runs[i].pc = "zRange"
    /\ LET results == ZRange(queue, 0, BatchLast)
       IN runs' = [runs EXCEPT ![i] =
                      [pc |-> IF results = <<>> THEN "done" ELSE "zRem",
                       results |-> results, read |-> results]]
    /\ UNCHANGED <<timeoutMs, processedEvents, objState, cellDwell, timeline,
                   audit, dwellCalls, applied, call, engine, route, race,
                   queue, batch, clock, published, handed, recent, query>>

\* await zRem('detection:queue', results)
RunZRem(i) ==
    /\ runs[i].pc = "zRem"
    /\ queue' = ZRemAll(queue, runs[i].results)
    /\ runs' = [runs EXCEPT ![i].pc = "loop"]
    /\ UNCHANGED <<timeoutMs, processedEvents, objState, cellDwell, timeline,
                   audit, dwellCalls, applied, call, engine, route, race,
                   batch, clock, published, handed, recent, query>>

\* one turn of the loop: the engine applies the event, then addRecentEvent
RunHandOff(i) ==
    /\ runs[i].pc = "loop"
    /\ ProcessEventCall(Head(runs[i].results))
    /\ handed' = Append(handed, Head(runs[i].results))
    /\ recent' = AddRecentEvent(recent, Head(runs[i].results))
    /\ runs' = [runs EXCEPT ![i].results = Tail(@),
                            ![i].pc = IF Len(runs[i].results) = 1
                                      THEN "done" ELSE "loop"]
    /\ UNCHANGED <<engine, route, race, queue, batch, clock, published,
                   query>>

\* the call into the engine throws: the outer catch ends the run
RunThrows(i) ==
    /\ runs[i].pc = "loop"
    /\ runs' = [runs EXCEPT ![i].results = <<>>, ![i].pc = "done"]
    /\ call' = [op |-> "processDetectionQueue", outcome |-> "error"]
    /\ UNCHANGED <<timeoutMs, processedEvents, objState, cellDwell, timeline,
                   audit, dwellCalls, applied, engine, route, race, queue,
                   batch, clock, published, handed, recent, query>>

NextTicks ==
    \/ Publish
    \/ Tick
    \/ TimerFires
    \/ \E i \in DOMAIN runs : RunZRange(i)
    \/ \E i \in DOMAIN runs : RunZRem(i)
    \/ \E i \in DOMAIN runs : RunHandOff(i)
    \/ \E i \in DOMAIN runs : RunThrows(i)

SpecTicks == Init /\ [][NextTicks]_vars

\* ---------------------------------------------------------------------
\* The ObjectState hash: setObjectState, getObjectState, getActiveObjects
\* ---------------------------------------------------------------------

\* the state getActiveObjects builds from a hash: data.current_cell || null
\* keeps every non-empty string, the string 'null' too
ActiveState(data) ==
    [object_id |-> data.object_id,
     current_cell |-> IF data.current_cell = "" THEN NullCell
                      ELSE data.current_cell,
     enter_ts_ms |-> ParseEnter(data.enter_ts_ms),
     last_seen_ts_ms |-> data.last_seen_ts_ms,
     accumulated_ms |-> data.accumulated_ms]

GetActiveObjects(hashes) ==
    {a \in {ActiveState(hashes[k]) : k \in DOMAIN hashes} :
        TruthyStr(a.current_cell)}

\* ObjectState values: in a cell since some instant, or in no cell
ObjectStates ==
    {[object_id |-> o, current_cell |-> c, enter_ts_ms |-> t,
      last_seen_ts_ms |-> MaxTs, accumulated_ms |-> a] :
        o \in Objects, c \in Cells, t \in Ts, a \in {0, MaxDwell}}
    \cup
    {[object_id |-> o, current_cell |-> NullCell, enter_ts_ms |-> NULL,
      last_seen_ts_ms |-> MaxTs, accumulated_ms |-> a] :
        o \in Objects, a \in {0, MaxDwell}}

\* setObjectState(state), then getObjectState of the same object and
\* getActiveObjects
WriteThenRead(state) ==
    /\ objState' = SetObjectState(objState, state)
    /\ query' = [op |-> "setObjectState", state |-> state,
                 read |-> GetObjectState(SetObjectState(objState, state),
                                         state.object_id),
                 active |-> GetActiveObjects(SetObjectState(objState, state))]
    /\ UNCHANGED <<timeoutMs, processedEvents, cellDwell, timeline, audit,
                   dwellCalls, applied, call, engine, route, race, handoff>>

RoundTrip == \E state \in ObjectStates : WriteThenRead(state)

SpecRoundTrip == Init /\ [][RoundTrip]_vars

\* =================================================================
\* Properties
\* =================================================================
Observations == {NormalizedEvent(o, c, t) : o \in Objects, c \in Cells, t \in Ts}

StateOf(o) == GetObjectState(objState, o)

\* the timeline entries and updateCellDwell calls added by the current step
NewEntries(o) ==
    SubSeq(timeline'[o], 1, Len(timeline'[o]) - Len(timeline[o]))

NewCalls == SubSeq(dwellCalls', Len(dwellCalls) + 1, Len(dwellCalls'))

EnterEntry(c, t) == Entry("enter", c, t, NULL, NoMeta)

\* C1: processEvent on an observation whose event_id is in the dedup set
\* leaves ObjectState, every cell contribution and every timeline unchanged.
C1_Idempotent ==
    [][\A e \in Observations :
          (e.event_id \in processedEvents /\ ProcessEvent(e))
              => UNCHANGED <<objState, cellDwell, timeline>>]_vars

\* a duplicate of an applied observation has been delivered and skipped
C1_Witness ==
    /\ call.op = "processEvent" /\ call.outcome = "skipped"
    /\ \E o \in Objects : applied[o] # <<>> /\ o \in DOMAIN objState

\* C2: an observation older than the stored last_seen_ts_ms is not applied:
\* ObjectState, cell contributions and timelines stay as they were.
C2_OutOfOrderRejected ==
    [][\A e \in Observations :
          (/\ e.object_id \in DOMAIN objState
           /\ e.ts_ms < StateOf(e.object_id).last_seen_ts_ms
           /\ ProcessEvent(e))
              => UNCHANGED <<objState, cellDwell, timeline>>]_vars

\* C3: an in-order observation within the timeout whose cell differs from
\* the current one records the contribution o.ts - s.enter_ts_ms to the old
\* cell, adds leave(old cell, s.enter_ts_ms, o.ts) and then enter(o.cell,
\* o.ts, null), and stores {o.cell, o.ts, o.ts, s.accumulated_ms + dwell}.
C3_CellTransition ==
    [][\A e \in Observations :
          LET o == e.object_id
              s == StateOf(o)
              dwell == e.ts_ms - s.enter_ts_ms
          IN (/\ o \in DOMAIN objState
              /\ e.event_id \notin processedEvents
              /\ e.ts_ms >= s.last_seen_ts_ms
              /\ e.ts_ms - s.last_seen_ts_ms <= timeoutMs
              /\ e.grid_cell_id # s.current_cell
              /\ ProcessEvent(e))
             => /\ NewCalls = <<DwellCmd(s.current_cell, o, dwell)>>
                /\ NewEntries(o) =
                     <<EnterEntry(e.grid_cell_id, e.ts_ms),
                       Entry("leave", s.current_cell, s.enter_ts_ms, e.ts_ms,
                             NoMeta)>>
                /\ GetObjectState(objState', o) =
                     [object_id |-> o,
                      current_cell |-> e.grid_cell_id,
                      enter_ts_ms |-> e.ts_ms,
                      last_seen_ts_ms |-> e.ts_ms,
                      accumulated_ms |-> s.accumulated_ms + dwell]]_vars

\* C4: an observation arriving more than timeoutMs after last_seen_ts_ms
\* closes the open span exactly once, at s.last_seen_ts_ms (one contribution
\* of s.last_seen_ts_ms - s.enter_ts_ms, one leave entry with reason
\* timeout), and stores {o.cell, o.ts, o.ts, s.accumulated_ms}, whether or
\* not o.cell equals s.current_cell.
C4_StaleGap ==
    [][\A e \in Observations :
          LET o == e.object_id
              s == StateOf(o)
          IN (/\ o \in DOMAIN objState
              /\ e.event_id \notin processedEvents
              /\ e.ts_ms - s.last_seen_ts_ms > timeoutMs
              /\ ProcessEvent(e))
             => /\ NewCalls = <<DwellCmd(s.current_cell, o,
                                         s.last_seen_ts_ms - s.enter_ts_ms)>>
                /\ SelectSeq(NewEntries(o), LAMBDA x : x.type = "leave") =
                     <<Entry("leave", s.current_cell, s.enter_ts_ms,
                             s.last_seen_ts_ms, {<<"reason", "timeout">>})>>
                /\ GetObjectState(objState', o) =
                     [object_id |-> o,
                      current_cell |-> e.grid_cell_id,
                      enter_ts_ms |-> e.ts_ms,
                      last_seen_ts_ms |-> e.ts_ms,
                      accumulated_ms |-> s.accumulated_ms]]_vars

RECURSIVE SumDwell(_)
SumDwell(calls) ==
    IF calls = <<>> THEN 0 ELSE Head(calls).dwell_ms + SumDwell(Tail(calls))

RECURSIVE SumSpans(_)
SumSpans(entries) ==
    IF entries = <<>> THEN 0
    ELSE (Head(entries).to_ts_ms - Head(entries).from_ts_ms)
         + SumSpans(Tail(entries))

CallsFor(c, o) ==
    SelectSeq(dwellCalls, LAMBDA x : x.cell_id = c /\ x.object_id = o)

CallsOf(o) == SelectSeq(dwellCalls, LAMBDA x : x.object_id = o)

LeavesOn(o, c) ==
    SelectSeq(timeline[o], LAMBDA x : x.type = "leave" /\ x.cell_id = c)

\* C5: the contribution stored for an object in a cell equals the sum of
\* the dwell values of all updateCellDwell calls made for that pair.
C5_Accumulative ==
    \A c \in Cells, o \in Objects :
        CallsFor(c, o) # <<>>
            => /\ o \in DOMAIN cellDwell[c]
               /\ cellDwell[c][o] = SumDwell(CallsFor(c, o))

\* C6: every leave(cell, from, to) entry of an object's timeline is matched
\* in the cell aggregate: contributions accumulate per (cell, object), so the
\* object's contribution to the cell is the sum of to - from over its leave
\* entries on that cell.
C6_TimelineAggregateAgree ==
    \A o \in Objects, c \in Cells :
        LeavesOn(o, c) # <<>>
            => /\ o \in DOMAIN cellDwell[c]
               /\ cellDwell[c][o] = SumSpans(LeavesOn(o, c))

\* the observation timestamps of an object's trace, and its gaps
TraceTs(o) == [i \in 1..Len(applied[o]) |-> applied[o][i].ts_ms]

InOrder(ts) == \A i \in 1..(Len(ts) - 1) : ts[i] <= ts[i + 1]

RECURSIVE SumBigGaps(_)
SumBigGaps(ts) ==
    IF Len(ts) < 2 THEN 0
    ELSE (IF ts[2] - ts[1] > timeoutMs THEN ts[2] - ts[1] ELSE 0)
         + SumBigGaps(Tail(ts))

\* C7: for an in-order trace of one object closed by a timeout (the close
\* handleTimeout performs on the stored state), the dwell reported to the
\* aggregates sums to last_seen_ts_ms - first_enter_ts_ms minus the gaps
\* larger than the timeout.
C7_DwellConservation ==
    \A o \in Objects :
        (applied[o] # <<>> /\ InOrder(TraceTs(o)))
            => SumDwell(CallsOf(o))
               + SumDwell(DwellCmdsOf(HandleTimeout(StateOf(o), 0)))
               = StateOf(o).last_seen_ts_ms - TraceTs(o)[1]
                 - SumBigGaps(TraceTs(o))

\* C8: the accumulated_ms the engine writes for an object is never smaller
\* than the one stored before the write.
C8_MonotonicAccumulation ==
    [][\A e \in Observations :
          (e.object_id \in DOMAIN objState /\ ProcessEvent(e))
              => GetObjectState(objState', e.object_id).accumulated_ms
                 >= StateOf(e.object_id).accumulated_ms]_vars

\* C9: every stored ObjectState has enter_ts_ms <= last_seen_ts_ms,
\* current_cell = null exactly when enter_ts_ms = null, accumulated_ms >= 0.
C9_ObjectStateInvariants ==
    \A o \in DOMAIN objState :
        LET s == StateOf(o) IN
        /\ s.enter_ts_ms # NULL => s.enter_ts_ms <= s.last_seen_ts_ms
        /\ (s.current_cell = NullCell) <=> (s.enter_ts_ms = NULL)
        /\ s.accumulated_ms >= 0

\* positions of an object's timeline (1 is the newest entry)
IdxOf(o, type) == {i \in 1..Len(timeline[o]) : timeline[o][i].type = type}

\* C10: each leave entry has to_ts_ms >= from_ts_ms and closes an earlier
\* enter entry on the same cell with the same from_ts_ms, no enter entry
\* being closed by two leave entries.
C10_TimelineWellFormed ==
    \A o \in Objects :
        LET tl == timeline[o] IN
        /\ \A i \in IdxOf(o, "leave") : tl[i].to_ts_ms >= tl[i].from_ts_ms
        /\ \E f \in [IdxOf(o, "leave") -> IdxOf(o, "enter")] :
              /\ \A i, j \in IdxOf(o, "leave") : i # j => f[i] # f[j]
              /\ \A i \in IdxOf(o, "leave") :
                    /\ f[i] > i
                    /\ tl[f[i]].cell_id = tl[i].cell_id
                    /\ tl[f[i]].from_ts_ms = tl[i].from_ts_ms

\* the last observation applied to an object, and the one before it
LastApplied(o) == applied[o][Len(applied[o])]

PrevApplied(o) == applied[o][Len(applied[o]) - 1]

\* ObjectState of every object other than o is left as it was by the step
OthersUnchanged(o) ==
    \A p \in Objects \ {o} :
        GetObjectState(objState', p) = GetObjectState(objState, p)

\* C12: a new in-order observation within the timeout whose cell is the
\* current cell changes only last_seen_ts_ms (set to o.ts): current_cell,
\* enter_ts_ms, accumulated_ms, every cell contribution and every timeline
\* stay as they were.
C12_SameCellTick ==
    [][\A e \in Observations :
          LET o == e.object_id
              s == StateOf(o)
          IN (/\ o \in DOMAIN objState
              /\ e.event_id \notin processedEvents
              /\ e.ts_ms >= s.last_seen_ts_ms
              /\ e.ts_ms - s.last_seen_ts_ms <= timeoutMs
              /\ e.grid_cell_id = s.current_cell
              /\ ProcessEvent(e))
             => /\ GetObjectState(objState', o) =
                     [s EXCEPT !.last_seen_ts_ms = e.ts_ms]
                /\ OthersUnchanged(o)
                /\ NewCalls = <<>>
                /\ UNCHANGED <<cellDwell, timeline>>]_vars

\* a later observation of an object in the cell it already occupies has
\* been applied within the timeout
C12_Witness ==
    /\ call.op = "processEvent" /\ call.outcome = "applied"
    /\ \E o \in Objects :
          /\ Len(applied[o]) >= 2
          /\ LastApplied(o).grid_cell_id = PrevApplied(o).grid_cell_id
          /\ LastApplied(o).ts_ms > PrevApplied(o).ts_ms
          /\ LastApplied(o).ts_ms - PrevApplied(o).ts_ms <= timeoutMs
          /\ StateOf(o).last_seen_ts_ms = LastApplied(o).ts_ms
          /\ StateOf(o).enter_ts_ms < LastApplied(o).ts_ms

\* C13: an observation of an object with no stored state stores
\* {o.cell, o.ts, o.ts, 0}, adds the single timeline entry
\* enter(o.cell, o.ts, null) and records no cell contribution.
C13_FirstSighting ==
    [][\A e \in Observations :
          LET o == e.object_id
          IN (o \notin DOMAIN objState /\ ProcessEvent(e))
             => /\ GetObjectState(objState', o) =
                     [object_id |-> o,
                      current_cell |-> e.grid_cell_id,
                      enter_ts_ms |-> e.ts_ms,
                      last_seen_ts_ms |-> e.ts_ms,
                      accumulated_ms |-> 0]
                /\ OthersUnchanged(o)
                /\ NewEntries(o) = <<EnterEntry(e.grid_cell_id, e.ts_ms)>>
                /\ \A p \in Objects \ {o} : timeline'[p] = timeline[p]
                /\ NewCalls = <<>>
                /\ UNCHANGED cellDwell]_vars

\* an object has been seen exactly once and holds only its enter entry
C13_Witness ==
    /\ call.op = "processEvent" /\ call.outcome = "applied"
    /\ \E o \in Objects :
          /\ Len(applied[o]) = 1
          /\ o \in DOMAIN objState
          /\ StateOf(o).accumulated_ms = 0
          /\ timeline[o] = <<EnterEntry(LastApplied(o).grid_cell_id,
                                        LastApplied(o).ts_ms)>>

\* an object holds an open span / has been closed by a timeout
OpenSpan(o) ==
    o \in DOMAIN objState /\ StateOf(o).current_cell # NullCell

TimeoutClosed(o) ==
    /\ o \in DOMAIN objState
    /\ StateOf(o).current_cell = NullCell
    /\ StateOf(o).enter_ts_ms = NULL
    /\ \E i \in 1..Len(timeline[o]) :
          /\ timeline[o][i].type = "leave"
          /\ timeline[o][i].to_ts_ms = StateOf(o).last_seen_ts_ms
          /\ timeline[o][i].meta = {<<"reason", "timeout">>}

\* C14: an object with an open span that receives no further observation
\* (so that its silence outlasts the timeout) is eventually closed by the
\* sweeper: leave entry ending at last_seen_ts_ms with reason timeout, state
\* kept with current_cell = null and enter_ts_ms = null.
C14_TimeoutSweep ==
    \A o \in Objects : \A n \in 1..MaxEvents :
        (OpenSpan(o) /\ Len(applied[o]) = n)
            ~> (TimeoutClosed(o) \/ Len(applied[o]) > n)

\* C15: a feedback operation in which a store call fails leaves ObjectState,
\* cell contributions, timelines and the audit log exactly as they were
\* before the operation started.
C15_FeedbackAtomicity ==
    [][call'.outcome = "500"
          => UNCHANGED <<objState, cellDwell, timeline, audit>>]_vars

\* the ObjectState hashes after the two overlapping calls run one after the
\* other from the store they started on, in either order
SerialResults ==
    LET e == race.event
        f == race.feedback
        ef == LET s1 == RunStore(race.base, EngineCalls(race.base.objState, e))
              IN RunStore(s1, RouteCalls(s1.objState, f))
        fe == LET s1 == RunStore(race.base, RouteCalls(race.base.objState, f))
              IN RunStore(s1, EngineCalls(s1.objState, e))
    IN {ef.objState, fe.objState}

\* C16: when a processEvent and a correct_cell or relabel on the same object
\* have overlapped and both have returned, the stored ObjectState is the one
\* some serial order of the two produces.
C16_FeedbackLinearized ==
    (/\ engine = Idle
     /\ route = Idle
     /\ race.overlapped
     /\ race.event.object_id = RouteObject(race.feedback))
        => objState \in SerialResults

\* relabel(old, new) of a stored object onto a free, different id
FreshRelabel(old, new) ==
    /\ old # new
    /\ old \in DOMAIN objState
    /\ new \notin DOMAIN objState
    /\ Relabel(old, new)

\* the contribution an object holds in a cell aggregate (0 when it has none)
Contribution(cells, c, o) == IF o \in DOMAIN cells[c] THEN cells[c][o] ELSE 0

\* C17: relabel(old, new) with old # new while ObjectState(new) exists
\* is refused with a conflict, and the states, contributions and timelines
\* of both objects stay as they were.
C17_RelabelConflict ==
    [][\A old \in Objects, new \in Objects :
          (/\ old # new
           /\ old \in DOMAIN objState
           /\ new \in DOMAIN objState
           /\ Relabel(old, new))
              => /\ call'.outcome = "409"
                 /\ UNCHANGED <<objState, cellDwell, timeline>>]_vars

\* C18: after a successful relabel(old, new), old # new, ObjectState(old)
\* is absent and ObjectState(new) is the former state of old with only
\* object_id replaced by new.
C18_RelabelMovesState ==
    [][\A old \in Objects, new \in Objects :
          FreshRelabel(old, new)
              => /\ call'.outcome = "success"
                 /\ old \notin DOMAIN objState'
                 /\ GetObjectState(objState', new) =
                      [StateOf(old) EXCEPT !.object_id = new]]_vars

\* C19: after relabel(old, new) of an object whose current cell is C, new's
\* contribution to C is old's prior contribution to C plus the open dwell
\* d_open = now - enter_ts_ms, for some time now of the request not before
\* last_seen_ts_ms, and old has no contribution left in any cell.
C19_RelabelPreservesDwell ==
    [][\A old \in Objects, new \in Objects :
          LET s == StateOf(old)
              C == s.current_cell
          IN FreshRelabel(old, new)
                => /\ \A c \in Cells : old \notin DOMAIN cellDwell'[c]
                   /\ \E now \in Ts :
                         /\ now >= s.last_seen_ts_ms
                         /\ Contribution(cellDwell', C, new) =
                              Contribution(cellDwell, C, old)
                              + (now - s.enter_ts_ms)]_vars

\* C20: after a successful relabel(old, new) the timeline of new contains
\* every entry the timeline of old held, and the timeline of old is empty.
C20_RelabelMovesTimeline ==
    [][\A old \in Objects, new \in Objects :
          FreshRelabel(old, new)
              => /\ timeline'[old] = <<>>
                 /\ \A i \in 1..Len(timeline[old]) :
                       \E j \in 1..Len(timeline'[new]) :
                           timeline'[new][j] = timeline[old][i]]_vars

\* C21: relabel of an old_object_id without ObjectState and correct_cell of
\* an object_id without ObjectState both answer 404 and write nothing: no
\* ObjectState, contribution, timeline or audit change.
C21_UnknownObject ==
    [][/\ \A old \in Objects, new \in Objects :
             (old \notin DOMAIN objState /\ Relabel(old, new))
                 => /\ call' = [op |-> "relabel", outcome |-> "404"]
                    /\ UNCHANGED <<objState, cellDwell, timeline, audit>>
       /\ \A o \in Objects, t \in Ts, c \in Cells :
             (o \notin DOMAIN objState /\ CorrectCell(o, t, c))
                 => /\ call' = [op |-> "correct_cell", outcome |-> "404"]
                    /\ UNCHANGED <<objState, cellDwell, timeline, audit>>]_vars

\* a feedback request on an unknown object has been refused while another
\* object is stored
C21_Witness ==
    /\ call.op \in {"relabel", "correct_cell"}
    /\ call.outcome = "404"
    /\ objState # <<>>
    /\ \E o \in Objects : o \notin DOMAIN objState
    /\ audit = <<>>

\* a correct_cell request that reaches the writes: the object is stored in
\* a cell other than the requested one
Correction(o, t, c) ==
    /\ o \in DOMAIN objState
    /\ StateOf(o).current_cell # NullCell
    /\ StateOf(o).current_cell # c
    /\ CorrectCell(o, t, c)

\* C22: a successful correct_cell on an object with non-null current_cell
\* leaves accumulated_ms as it was, and afterwards the object has no
\* contribution in the original cell's aggregate.
C22_CorrectCellAccumulation ==
    [][\A o \in Objects, t \in Ts, c \in Cells :
          Correction(o, t, c)
              => /\ GetObjectState(objState', o).accumulated_ms =
                      StateOf(o).accumulated_ms
                 /\ o \notin DOMAIN cellDwell'[StateOf(o).current_cell]]_vars

\* C23: after a successful correct_cell(o, t, c) on an object stored in
\* another cell, the state has current_cell = c and enter_ts_ms =
\* last_seen_ts_ms = t, and the timeline has gained a correct entry for the
\* old cell from the old enter_ts_ms to t, then an open enter entry for c at
\* t with reason correction.
C23_CorrectCellResult ==
    [][\A o \in Objects, t \in Ts, c \in Cells :
          LET s == StateOf(o)
              s2 == GetObjectState(objState', o)
              new == NewEntries(o)
          IN Correction(o, t, c)
                => /\ call'.outcome = "success"
                   /\ s2.current_cell = c
                   /\ s2.enter_ts_ms = t
                   /\ s2.last_seen_ts_ms = t
                   /\ Len(new) = 2
                   /\ new[1] = Entry("enter", c, t, NULL,
                                     {<<"reason", "correction">>})
                   /\ new[2].type = "correct"
                   /\ new[2].cell_id = s.current_cell
                   /\ new[2].from_ts_ms = s.enter_ts_ms
                   /\ new[2].to_ts_ms = t]_vars

\* C24: correct_cell on an object whose current_cell already equals
\* correct_cell_id answers no_change and writes nothing: the object states,
\* the cell contributions, the timelines and the audit log are unchanged.
C24_CorrectCellNoOp ==
    [][\A o \in Objects, t \in Ts, c \in Cells :
          (/\ o \in DOMAIN objState
           /\ StateOf(o).current_cell = c
           /\ CorrectCell(o, t, c))
              => /\ call' = [op |-> "correct_cell", outcome |-> "no_change"]
                 /\ UNCHANGED <<objState, cellDwell, timeline, audit>>]_vars

C24_Witness ==
    /\ call = [op |-> "correct_cell", outcome |-> "no_change"]
    /\ \E o \in DOMAIN objState : StateOf(o).current_cell # NullCell
    /\ audit = <<>>

\* C25: a successful delete_span(o, from, to) adds exactly one timeline
\* entry, of type delete, cell 'deleted' and duration to - from, to the
\* timeline of o, and one audit record; every object state, every cell
\* contribution and every other timeline is unchanged.
C25_DeleteSpanAuditOnly ==
    [][\A o \in Objects, f \in Ts, t \in Ts :
          (f < t /\ DeleteSpan(o, f, t))
              => /\ call' = [op |-> "delete_span", outcome |-> "success"]
                 /\ Len(NewEntries(o)) = 1
                 /\ NewEntries(o)[1].type = "delete"
                 /\ NewEntries(o)[1].cell_id = "deleted"
                 /\ NewEntries(o)[1].from_ts_ms = f
                 /\ NewEntries(o)[1].to_ts_ms = t
                 /\ <<"duration_ms", t - f>> \in NewEntries(o)[1].meta
                 /\ timeline' = [timeline EXCEPT ![o] = NewEntries(o) \o @]
                 /\ Len(audit') = Len(audit) + 1
                 /\ audit'[Len(audit')].event_type = "delete_span"
                 /\ SubSeq(audit', 1, Len(audit)) = audit
                 /\ UNCHANGED <<objState, cellDwell>>]_vars

C25_Witness ==
    /\ call = [op |-> "delete_span", outcome |-> "success"]
    /\ objState # <<>>
    /\ \E o \in Objects :
          /\ timeline[o] # <<>>
          /\ timeline[o][1].type = "delete"
          /\ timeline[o][1].from_ts_ms > 0

\* C26: delete_span with from_ts_ms >= to_ts_ms is refused with status 400
\* and writes neither a timeline entry nor an audit record.
C26_InvalidSpan ==
    [][\A o \in Objects, f \in Ts, t \in Ts :
          (f >= t /\ DeleteSpan(o, f, t))
              => /\ call' = [op |-> "delete_span", outcome |-> "400"]
                 /\ UNCHANGED <<objState, cellDwell, timeline, audit>>]_vars

C26_Witness ==
    /\ call = [op |-> "delete_span", outcome |-> "400"]
    /\ objState # <<>>
    /\ audit = <<>>


Published(e) == \E i \in DOMAIN published : published[i] = e

\* C27: an observation published to the detection queue is never lost: it
\* is redelivered until processEvent has returned for it, so every
\* published observation eventually has its event_id in processedEvents,
\* also when its hand-off, or one earlier in its batch, threw.
C27_AtLeastOnce ==
    \A e \in Observations :
        Published(e) ~> (e.event_id \in processedEvents)

PubIndex(e) == CHOOSE i \in DOMAIN published : published[i] = e

PublishedOnce(e) ==
    Cardinality({i \in DOMAIN published : published[i] = e}) = 1

C29_DedupAfterPersistence ==
    [][/\ \A e \in Observations :
             (~AlreadyProcessed(e) /\ call'.outcome = "throws")
                 => /\ call'.op = "processEvent"
                    /\ e.event_id \notin processedEvents'
                    /\ applied' = applied
       /\ \A e \in Observations :
             (e.event_id \in processedEvents' \ processedEvents)
                 => /\ call' = [op |-> "processEvent", outcome |-> "applied"]
                    /\ \E c \in Cells :
                          objState' = SetObjectState(objState,
                              UpdateDwellState(
                                  [e EXCEPT !.grid_cell_id = c],
                                  StateOf(e.object_id)).state)]_vars

C29_Witness ==
    /\ call = [op |-> "processEvent", outcome |-> "throws"]
    /\ processedEvents # {}
    /\ \E o \in Objects :
          /\ timeline[o] # <<>>
          /\ timeline[o][1].type = "leave"
          /\ StateOf(o).current_cell = timeline[o][1].cell_id


\* C30: processedEvents never holds more than 10 000 ids, and an id is
\* still recognised as a duplicate while fewer than 10 000 newer ids have
\* been applied since it was inserted; every id applied in a run of at most
\* MaxEvents observations is therefore still in the set.
C30_DedupWindow ==
    /\ Cardinality(processedEvents) <= DedupLimit
    /\ \A o \in Objects : \A i \in DOMAIN applied[o] :
          applied[o][i].event_id \in processedEvents


RECURSIVE SumScores(_)
SumScores(zset) ==
    IF DOMAIN zset = {} THEN 0
    ELSE LET m == CHOOSE x \in DOMAIN zset : TRUE
         IN zset[m] + SumScores([k \in (DOMAIN zset) \ {m} |-> zset[k]])

\* C31: for every cell with contributions, getCellStats returns an
\* aggregate whose total_dwell_ms is the sum of the contributions stored for
\* the cell and whose object_count is the number of objects with a nonzero
\* contribution.
C31_CellStats ==
    \A c \in Cells :
        cellDwell[c] # <<>>
            => /\ GetCellStats(cellDwell).error = "none"
               /\ \E s \in GetCellStats(cellDwell).stats :
                     /\ s.grid_cell_id = c
                     /\ s.total_dwell_ms = SumScores(cellDwell[c])
                     /\ s.object_count =
                            Cardinality({o \in DOMAIN cellDwell[c] :
                                            cellDwell[c][o] # 0})


AddedEntries(e) ==
    LET cmds == UpdateDwellState(e, StateOf(e.object_id)).cmds
        adds == SelectSeq(cmds, LAMBDA c : c.cmd = "addTimelineEntry")
    IN [i \in DOMAIN adds |-> adds[i].entry]

Reverse(seq) == [i \in DOMAIN seq |-> seq[Len(seq) - i + 1]]

MostRecent(seq, k) == SubSeq(seq, 1, IF Len(seq) < k THEN Len(seq) ELSE k)

\* C33: a timeline never holds more than 100 entries, and after the writes
\* of an observation it holds the 100 most recently added entries, newest
\* first: the new ones and then the newest of those it held before.
C33_TimelineBound ==
    /\ [](\A o \in Objects : Len(timeline[o]) <= 100)
    /\ [][\A e \in Observations :
             (~AlreadyProcessed(e) /\ ProcessEvent(e))
                 => timeline'[e.object_id] =
                        MostRecent(Reverse(AddedEntries(e))
                                       \o timeline[e.object_id], 100)]_vars

C33_Witness ==
    /\ Len(timeline["A"]) = 100
    /\ timeline["A"][1].type = "enter"
    /\ timeline["A"][100].type = "delete"
    /\ timeline["A"][100].to_ts_ms > 2


Pad2(n) == IF n < 10 THEN "0" \o ToString(n) ELSE ToString(n)
GridCell(x, y) == "G_" \o Pad2(x) \o "_" \o Pad2(y)
ValidGridCell(cellId) ==
    \E x \in 0..19, y \in 0..14 : cellId = GridCell(x, y)
ValidObjects(frame) ==
    SelectSeq(frame.objects, LAMBDA o : ValidGridCell(o.grid_cell_id))

\* C35: no observation with a grid_cell_id outside the grid is ever in the
\* queue, and POST /frames enqueues exactly the observations of the frame's
\* valid objects.
C35_NormalizerValidation ==
    /\ [](\A e \in DOMAIN queue : ValidGridCell(e.grid_cell_id))
    /\ [][\A collectorId \in Collectors, frame \in CameraFrames :
            ProcessCameraFrame(collectorId, frame) =>
                published' = published \o NormalizeDetectionPayload(
                    BuildDetectionPayload(collectorId,
                        [frame EXCEPT !.objects = ValidObjects(frame)]))]_vars


\* the tuple an event id stands for
IdTuple(e) == <<e.collector_id, e.camera_id, e.ts_ms, e.object_id>>

\* C36: POST /frames emits one observation per object of the frame, and
\* two emitted observations have the same event_id exactly when they agree
\* on (collector_id, camera_id, timestamp_ms, object_id).
C36_EventIds ==
    /\ [](\A i, j \in DOMAIN published :
            (published[i].event_id = published[j].event_id)
                <=> (IdTuple(published[i]) = IdTuple(published[j])))
    /\ [][\A collectorId \in Collectors, frame \in CameraFrames :
            ProcessCameraFrame(collectorId, frame) =>
                Len(published') = Len(published) + Len(frame.objects)]_vars


\* the invocations of processDetectionQueue that have not returned
InProgress == {i \in DOMAIN runs : runs[i].pc # "done"}

\* C37: at most one invocation of processDetectionQueue is in progress at
\* any time, and no queued observation is read by two invocations that
\* overlap.
C37_SingleConsumer ==
    /\ Cardinality(InProgress) <= 1
    /\ \A i, j \in InProgress :
          i # j => \A m \in DOMAIN runs[i].read, n \in DOMAIN runs[j].read :
                      runs[i].read[m] # runs[j].read[n]


\* C38: when processEvent threw after some of its store calls and the same
\* observation is delivered again and applied, the object states, the cell
\* contributions and the timelines are those of one application of the
\* observation to the store the failed invocation started on.
C38_RetryExactlyOnce ==
    [][(engine # Idle /\ Redeliver) =>
          LET once == RunStore(engine.base,
                               ProcessEventCalls(engine.base.objState,
                                                 engine.event))
          IN /\ objState' = once.objState
             /\ cellDwell' = once.cellDwell
             /\ timeline' = once.timeline]_vars


\* the place of a store call in the order state write, aggregate edit,
\* timeline append; the audit record is outside that order
WriteRank(c) ==
    IF c.cmd = "setObjectState" THEN 1
    ELSE IF c.cmd \in {"removeCellDwell", "updateCellDwell"} THEN 2
    ELSE IF c.cmd = "addTimelineEntry" THEN 3
    ELSE 0

InWriteOrder(calls) ==
    \A i, j \in DOMAIN calls :
        (i < j /\ WriteRank(calls[i]) > 0 /\ WriteRank(calls[j]) > 0)
            => WriteRank(calls[i]) <= WriteRank(calls[j])

\* C39: the store calls a feedback route (relabel, correct_cell) still has
\* to make are in the order: ObjectState writes, then cell-aggregate edits,
\* then timeline appends.
C39_FeedbackWriteOrder ==
    route # Idle => InWriteOrder(route.calls)


\* C40: getObjectState after setObjectState(s) returns s field by field,
\* and a state s with current_cell = null is not among the states
\* getActiveObjects reports.
C40_StateRoundTrip ==
    query.op = "setObjectState" =>
        /\ query.read = query.state
        /\ query.state.current_cell = NullCell =>
              \A a \in query.active :
                  a.object_id # query.state.object_id

====
